---- MODULE Spec2Model ----
(***************************************************************************)
(* SafeLayer: the guard pipeline (GuardManager.run over PIIGuard, TTSGuard *)
(* and the custom SecretGuard, with the audit sink) and the policy store   *)
(* (PolicyManager: load with inheritance, set_active, get_active).         *)
(*                                                                         *)
(* A text is a sequence of one-character strings.  The regular expressions *)
(* of the guards are computed as Python's re computes them: leftmost,      *)
(* greedy, with backtracking, non-overlapping for finditer and sub.        *)
(* Offsets in findings are Python's: 0-based start, exclusive end.         *)
(* Thresholds are kept in tenths (0.8 is 8).                               *)
(***************************************************************************)
EXTENDS Integers, Sequences, FiniteSets, TLC

VARIABLES
    guards,           \* GuardManager.guards, fixed at construction
    pc,               \* position of the run call
    text,             \* the local `text` of run
    guard_idx,        \* position of `for guard in self.guards`
    findings,         \* the local `findings` of run
    finding_idx,      \* position of `for finding in findings`
    audit_file,       \* the lines of audit.log
    outcome,          \* what the run call gave its caller
    trace,            \* history: the calls run has made on its guards and the sink
    input,            \* history: the argument of the run call
    loaded_policies,  \* PolicyManager.loaded_policies: name -> PolicySet
    active_policy,    \* PolicyManager.active_policy
    next_oid,         \* identity of the next PolicySet object constructed
    config_dir,       \* the files save_policy has written: path -> document
    history,          \* history: the PolicyManager calls made, with their outcomes
    guard,            \* a guard object a caller uses on its own: its class
    subject,          \* the text in that caller's hands
    calls,            \* history: the check and mask calls made on that guard
    runs,             \* thread -> the locals of the run call that thread makes
    _policy_manager,  \* the module global of policy.py: None or a PolicyManager
    callers,          \* thread -> where it is in get_policy_manager, and what it got
    stores            \* the PolicyManager objects built: the names each has loaded

pipeline_vars == <<guards, pc, text, guard_idx, findings, finding_idx,
                   audit_file, outcome, trace, input>>
policy_vars == <<loaded_policies, active_policy, next_oid, config_dir, history>>
isolated_vars == <<guard, subject, calls>>
threaded_vars == <<runs>>
singleton_vars == <<_policy_manager, callers, stores>>
vars == <<guards, pc, text, guard_idx, findings, finding_idx, audit_file,
          outcome, trace, input, loaded_policies, active_policy, next_oid,
          config_dir, history, guard, subject, calls, runs,
          _policy_manager, callers, stores>>

(***************************************************************************)
(* Bounds                                                                  *)
(***************************************************************************)
MaxFrags == 3      \* an input text is at most this many fragments long
MaxCalls == 3      \* PolicyManager calls in one behaviour
MaxThreads == 2    \* threads that call into the library at the same time

(***************************************************************************)
(* Characters and texts                                                    *)
(***************************************************************************)
LowerLetters == <<"a","b","c","d","e","f","g","h","i","j","k","l","m",
                  "n","o","p","q","r","s","t","u","v","w","x","y","z">>
UpperLetters == <<"A","B","C","D","E","F","G","H","I","J","K","L","M",
                  "N","O","P","Q","R","S","T","U","V","W","X","Y","Z">>
Digits == {"0","1","2","3","4","5","6","7","8","9"}
\* One character outside ASCII (a letter, so \w matches it).
NonAsciiChar == "U+00E9"
Letters == {LowerLetters[n] : n \in 1..26} \cup {UpperLetters[n] : n \in 1..26}

\* str.lower() of one character; re.I compares characters through it.
Lower(c) ==
    IF \E n \in 1..26 : UpperLetters[n] = c
    THEN LowerLetters[CHOOSE n \in 1..26 : UpperLetters[n] = c]
    ELSE c

\* \w of a str pattern: Unicode letters, digits and the underscore.
WordChars == Letters \cup Digits \cup {"_", NonAsciiChar}
IsWordChar(c) == c \in WordChars
\* \d
IsDigit(c) == c \in Digits
\* [\w\.-]
IsEmailChar(c) == IsWordChar(c) \/ c \in {".", "-"}
\* [^\x00-\x7F]
IsNonAscii(c) == c = NonAsciiChar

\* Python's None, which run accepts as `text` like any other object.
NoneValue == <<"None">>
IsStr(t) == t /= NoneValue

WordAt(t, i) == i >= 1 /\ i <= Len(t) /\ IsWordChar(t[i])
\* \b at the gap before position i (1-based; i = Len(t)+1 is the end).
Boundary(t, i) == WordAt(t, i - 1) /= WordAt(t, i)

\* First position >= i that is past the run of characters of a class, or Len+1.
RECURSIVE EmailRunEnd(_, _)
EmailRunEnd(t, i) ==
    IF i > Len(t) \/ ~IsEmailChar(t[i]) THEN i ELSE EmailRunEnd(t, i + 1)
RECURSIVE WordRunEnd(_, _)
WordRunEnd(t, i) ==
    IF i > Len(t) \/ ~IsWordChar(t[i]) THEN i ELSE WordRunEnd(t, i + 1)
RECURSIVE NonAsciiRunEnd(_, _)
NonAsciiRunEnd(t, i) ==
    IF i > Len(t) \/ ~IsNonAscii(t[i]) THEN i ELSE NonAsciiRunEnd(t, i + 1)
\* First position >= i that holds the character c, or Len+1.
RECURSIVE IndexOf(_, _, _)
IndexOf(t, c, i) ==
    IF i > Len(t) \/ t[i] = c THEN i ELSE IndexOf(t, c, i + 1)

\* t[i..] starts with the literal w (case folded when ci).
StartsWith(t, i, w, ci) ==
    /\ i + Len(w) - 1 <= Len(t)
    /\ \A n \in 1..Len(w) :
          IF ci THEN Lower(t[i + n - 1]) = Lower(w[n]) ELSE t[i + n - 1] = w[n]

(***************************************************************************)
(* The patterns.  Each Match operator gives the last position (1-based,    *)
(* inclusive) of the match that starts at position i, or 0 for no match.   *)
(***************************************************************************)
PhoneDigits == 10
ScriptWord == <<"s","c","r","i","p","t">>
SecretWord == <<"s","u","p","e","r","s","e","c","r","e","t">>

\* the last "." in lo..p that a word character follows, or 0: where the
\* greedy [\w\.-]+ stops backtracking for \.\w+
RECURSIVE LastDot(_, _, _)
LastDot(t, lo, p) ==
    IF p < lo THEN 0
    ELSE IF t[p] = "." /\ IsWordChar(t[p + 1]) THEN p
    ELSE LastDot(t, lo, p - 1)

\* EMAIL_RE = [\w\.-]+@[\w\.-]+\.\w+
MatchEmail(t, i) ==
    LET j == EmailRunEnd(t, i)
    IN  IF j = i \/ j > Len(t) \/ t[j] /= "@" THEN 0
        ELSE LET k == EmailRunEnd(t, j + 1)
                 dot == LastDot(t, j + 2, k - 2)
             IN  IF dot = 0 THEN 0 ELSE WordRunEnd(t, dot + 1) - 1

\* PHONE_RE = \b\d{10}\b
MatchPhone(t, i) ==
    IF /\ i + PhoneDigits - 1 <= Len(t)
       /\ Boundary(t, i)
       /\ \A d \in 0..(PhoneDigits - 1) : IsDigit(t[i + d])
       /\ Boundary(t, i + PhoneDigits)
    THEN i + PhoneDigits - 1
    ELSE 0

\* the last start in lo..s of the word "script", or 0: where the greedy
\* [^>]* stops backtracking
RECURSIVE LastScript(_, _, _, _)
LastScript(t, lo, s, ci) ==
    IF s < lo THEN 0
    ELSE IF StartsWith(t, s, ScriptWord, ci) THEN s
    ELSE LastScript(t, lo, s - 1, ci)

\* INVALID_TTS_PATTERNS[0] = <[^>]*script ; ci is the re.I flag
MatchScript(t, i, ci) ==
    IF t[i] /= "<" THEN 0
    ELSE LET g == IndexOf(t, ">", i + 1)
             s == LastScript(t, i + 1, g - Len(ScriptWord), ci)
         IN  IF s = 0 THEN 0 ELSE s + Len(ScriptWord) - 1

\* INVALID_TTS_PATTERNS[1] = [^\x00-\x7F]+
MatchNonAscii(t, i) ==
    IF IsNonAscii(t[i]) THEN NonAsciiRunEnd(t, i) - 1 ELSE 0

\* the literal "supersecret" of str.index and str.replace
MatchSecret(t, i) ==
    IF StartsWith(t, i, SecretWord, FALSE) THEN i + Len(SecretWord) - 1 ELSE 0

MatchAt(pat, t, i) ==
    CASE pat = "EMAIL_RE" -> MatchEmail(t, i)
      [] pat = "PHONE_RE" -> MatchPhone(t, i)
      [] pat = "<[^>]*script" -> MatchScript(t, i, FALSE)
      [] pat = "<[^>]*script/I" -> MatchScript(t, i, TRUE)
      [] pat = "[^\\x00-\\x7F]+" -> MatchNonAscii(t, i)
      [] pat = "supersecret" -> MatchSecret(t, i)

\* re.finditer: the spans <<first, last>> of the non-overlapping matches from i on.
RECURSIVE FindIter(_, _, _)
FindIter(pat, t, i) ==
    IF i > Len(t) THEN <<>>
    ELSE LET e == MatchAt(pat, t, i)
         IN  IF e = 0 THEN FindIter(pat, t, i + 1)
             ELSE <<<<i, e>>>> \o FindIter(pat, t, e + 1)

\* re.search: is there a match anywhere
Search(pat, t) == \E i \in 1..Len(t) : MatchAt(pat, t, i) /= 0

\* re.sub / str.replace: every non-overlapping match from i on replaced by repl.
RECURSIVE Sub(_, _, _, _)
Sub(pat, repl, t, i) ==
    IF i > Len(t) THEN <<>>
    ELSE LET e == MatchAt(pat, t, i)
         IN  IF e = 0 THEN <<t[i]>> \o Sub(pat, repl, t, i + 1)
             ELSE repl \o Sub(pat, repl, t, e + 1)

\* is the literal w a substring of t
Contains(t, w) == \E i \in 1..Len(t) : StartsWith(t, i, w, FALSE)

(***************************************************************************)
(* The guards.  A call gives a value or raises.                            *)
(***************************************************************************)
Return(v) == [raised |-> FALSE, value |-> v, exc |-> "none"]
Raise(e) == [raised |-> TRUE, value |-> <<>>, exc |-> e]

EmailMasked == <<"[","E","M","A","I","L"," ","M","A","S","K","E","D","]">>
PhoneMasked == <<"[","P","H","O","N","E"," ","M","A","S","K","E","D","]">>
Redacted == <<"[","R","E","D","A","C","T","E","D","]">>

\* the findings PIIGuard.check builds from one pattern's matches
PIIFindings(kind, label, pat, t) ==
    LET spans == FindIter(pat, t, 1)
    IN  [n \in 1..Len(spans) |->
            [entity |-> kind,
             start |-> spans[n][1] - 1,
             end |-> spans[n][2],
             explanation |-> [label |-> label,
                              group |-> SubSeq(t, spans[n][1], spans[n][2]),
                              span |-> <<spans[n][1] - 1, spans[n][2]>>]]]

\* PIIGuard.check without the optional Presidio engine (PRESIDIO = False)
PIIGuard_check(t) ==
    IF ~IsStr(t) THEN Raise("TypeError")
    ELSE Return(PIIFindings("email", "EMAIL", "EMAIL_RE", t)
                \o PIIFindings("phone", "PHONE", "PHONE_RE", t))

\* the function PIIGuard.mask of the class body
PIIGuard_mask_method(t) ==
    IF ~IsStr(t) THEN Raise("TypeError")
    ELSE Return(Sub("PHONE_RE", PhoneMasked, Sub("EMAIL_RE", EmailMasked, t, 1), 1))

\* the attribute `mask` of a PIIGuard instance: __init__ binds it to its
\* argument mask (default True), which hides the method; calling it raises.
PIIGuard_mask(t) == Raise("TypeError")

TTSFinding(pat) ==
    [entity |-> "invalid_tts", pattern |-> pat,
     explanation |-> [label |-> "Invalid pattern matched", pattern |-> pat]]

\* TTSGuard.check: re.search of each pattern, with re.I
TTSGuard_check(t) ==
    IF ~IsStr(t) THEN Raise("TypeError")
    ELSE Return((IF Search("<[^>]*script/I", t) THEN <<TTSFinding("<[^>]*script")>> ELSE <<>>)
                \o (IF Search("[^\\x00-\\x7F]+", t) THEN <<TTSFinding("[^\\x00-\\x7F]+")>> ELSE <<>>))

\* TTSGuard.mask: re.sub of each pattern, without re.I
TTSGuard_mask(t) ==
    IF ~IsStr(t) THEN Raise("TypeError")
    ELSE Return(Sub("[^\\x00-\\x7F]+", <<>>, Sub("<[^>]*script", <<>>, t, 1), 1))

\* SecretGuard.check of examples/custom_guard_demo.py
SecretGuard_check(t) ==
    IF ~IsStr(t) THEN Raise("TypeError")
    ELSE IF Contains(t, SecretWord)
         THEN LET at == FindIter("supersecret", t, 1)[1][1]
              IN  Return(<<[entity |-> "secret", start |-> at - 1,
                            end |-> at - 1 + Len(SecretWord),
                            explanation |-> [label |-> "Found secret keyword"]]>>)
         ELSE Return(<<>>)

\* SecretGuard.mask
SecretGuard_mask(t) ==
    IF ~IsStr(t) THEN Raise("AttributeError")
    ELSE Return(Sub("supersecret", Redacted, t, 1))

GuardClasses == {"PIIGuard", "TTSGuard", "SecretGuard"}

\* guard.check(text), dispatched on the guard's class
GuardCheck(g, t) ==
    CASE g = "PIIGuard" -> PIIGuard_check(t)
      [] g = "TTSGuard" -> TTSGuard_check(t)
      [] g = "SecretGuard" -> SecretGuard_check(t)

\* guard.mask(text), dispatched on the guard's class
GuardMask(g, t) ==
    CASE g = "PIIGuard" -> PIIGuard_mask(t)
      [] g = "TTSGuard" -> TTSGuard_mask(t)
      [] g = "SecretGuard" -> SecretGuard_mask(t)

\* guard.__class__.__name__
ClassName(g) == g

(***************************************************************************)
(* The inputs of the pipeline                                              *)
(***************************************************************************)
Fragments ==
    { <<" ">>,
      <<"a","@","b",".","c">>,
      <<"9","8","7","6","5","4","3","2","1","0">>,
      <<"<","s","c","r","i","p","t">>,
      <<NonAsciiChar>>,
      SecretWord }

RECURSIVE TextsUpTo(_)
TextsUpTo(n) ==
    IF n = 0 THEN {<<>>}
    ELSE LET S == TextsUpTo(n - 1) IN S \cup {s \o f : s \in S, f \in Fragments}

\* what a caller may hand to run: a string, or (through apply_guards, which
\* forwards whatever the wrapped function returned) None
RunInputs == TextsUpTo(MaxFrags) \cup {NoneValue}

\* the guard lists a caller may build: every ordering of every selection
\* of the guard classes
RECURSIVE ListsOver(_)
ListsOver(S) ==
    {<<>>} \cup UNION {{<<g>> \o l : l \in ListsOver(S \ {g})} : g \in S}

GuardLists == ListsOver(GuardClasses)

\* a line an earlier call left in audit.log
OldEntry ==
    [guard |-> "SecretGuard", entity |-> "secret", start |-> 0, end |-> Len(SecretWord),
     explanation |-> [label |-> "Found secret keyword"], timestamp |-> 0]

(***************************************************************************)
(* audit_log                                                               *)
(***************************************************************************)
AddField(r, k, v) == [x \in DOMAIN r \cup {k} |-> IF x = k THEN v ELSE r[x]]

\* the clock of datetime.now(): one tick per call run has made
Now == 1 + Len(trace)

\* audit_log(guard=..., **finding): the entry appended to audit.log
audit_log(name, finding) ==
    Append(audit_file, AddField(AddField(finding, "guard", name), "timestamp", Now))

(***************************************************************************)
(* GuardManager.run, one action per call it makes                          *)
(***************************************************************************)
NoFinding == [entity |-> "none"]
NoOutcome == [kind |-> "none", value |-> <<>>, exc |-> "none"]

\* one call of run: on guard number k, with the text at the call, the finding
\* handed over (audit, explain), the findings returned (check), the text
\* returned (mask) and whether the call raised
Event(op, k, t, f, found, result, r) ==
    [op |-> op, guard |-> k, text |-> t, finding |-> f, found |-> found,
     result |-> result, raised |-> r]

\* where the loop `for guard in self.guards` goes after guard k is finished
AfterGuard(k) == IF k < Len(guards) THEN "check" ELSE "return"

\* an exception leaves run: nothing catches it
Propagate(e) ==
    /\ pc' = "raised"
    /\ outcome' = [kind |-> "exception", value |-> <<>>, exc |-> e]

\* the caller enters run(text)
run_call ==
    /\ pc = "idle"
    /\ \E t \in RunInputs :
          /\ text' = t
          /\ input' = t
    /\ guard_idx' = 1
    /\ pc' = IF guards = <<>> THEN "return" ELSE "check"
    /\ UNCHANGED <<guards, findings, finding_idx, audit_file, outcome, trace>>
    /\ UNCHANGED <<policy_vars, isolated_vars, threaded_vars, singleton_vars>>

\* run_check changed: mask is called for every guard, findings or not
run_check_then_mask ==
    /\ pc = "check"
    /\ LET r == GuardCheck(guards[guard_idx], text)
       IN  /\ trace' = Append(trace, Event("check", guard_idx, text, NoFinding,
                                         IF r.raised THEN <<>> ELSE r.value, text,
                                         r.raised))
           /\ IF r.raised
              THEN /\ Propagate(r.exc)
                   /\ UNCHANGED <<findings, finding_idx>>
              ELSE /\ findings' = r.value
                   /\ finding_idx' = 1
                   /\ pc' = IF Len(r.value) = 0 THEN "mask" ELSE "audit"
                   /\ UNCHANGED outcome
    /\ UNCHANGED <<guards, text, guard_idx, audit_file, input>>
    /\ UNCHANGED <<policy_vars, isolated_vars, threaded_vars, singleton_vars>>

\* findings = guard.check(text), and the head of `for finding in findings`
run_check ==
    /\ pc = "check"
    /\ LET r == GuardCheck(guards[guard_idx], text)
       IN  /\ trace' = Append(trace, Event("check", guard_idx, text, NoFinding,
                                         IF r.raised THEN <<>> ELSE r.value, text,
                                         r.raised))
           /\ IF r.raised
              THEN /\ Propagate(r.exc)
                   /\ UNCHANGED <<findings, finding_idx, guard_idx>>
              ELSE /\ findings' = r.value
                   /\ finding_idx' = 1
                   /\ IF Len(r.value) = 0
                      THEN /\ pc' = AfterGuard(guard_idx)
                           /\ guard_idx' = guard_idx + 1
                      ELSE /\ pc' = "audit"
                           /\ UNCHANGED guard_idx
                   /\ UNCHANGED outcome
    /\ UNCHANGED <<guards, text, audit_file, input>>
    /\ UNCHANGED <<policy_vars, isolated_vars, threaded_vars, singleton_vars>>

\* audit_log(guard=guard.__class__.__name__, **finding)
run_audit ==
    /\ pc = "audit"
    /\ audit_file' = audit_log(ClassName(guards[guard_idx]), findings[finding_idx])
    /\ trace' = Append(trace, Event("audit", guard_idx, text, findings[finding_idx],
                                  <<>>, text, FALSE))
    /\ pc' = "explain"
    /\ UNCHANGED <<guards, text, guard_idx, findings, finding_idx, outcome, input>>
    /\ UNCHANGED <<policy_vars, isolated_vars, threaded_vars, singleton_vars>>

\* guard.explain_action(finding): prints only when the guard's explain flag
\* is set, and the guards here are built with the default explain=False
run_explain ==
    /\ pc = "explain"
    /\ trace' = Append(trace, Event("explain", guard_idx, text, findings[finding_idx],
                                  <<>>, text, FALSE))
    /\ pc' = "mask"
    /\ UNCHANGED <<guards, text, guard_idx, findings, finding_idx, audit_file, outcome, input>>
    /\ UNCHANGED <<policy_vars, isolated_vars, threaded_vars, singleton_vars>>

\* run_mask changed: a guard whose mask raises is skipped (catch and continue)
run_mask_catch ==
    /\ pc = "mask"
    /\ LET r == GuardMask(guards[guard_idx], text)
       IN  /\ trace' = Append(trace, Event("mask", guard_idx, text, NoFinding, <<>>,
                                         IF r.raised THEN text ELSE r.value,
                                         r.raised))
           /\ text' = IF r.raised THEN text ELSE r.value
           /\ IF ~r.raised /\ finding_idx < Len(findings)
              THEN /\ finding_idx' = finding_idx + 1
                   /\ pc' = "audit"
                   /\ UNCHANGED guard_idx
              ELSE /\ pc' = AfterGuard(guard_idx)
                   /\ guard_idx' = guard_idx + 1
                   /\ UNCHANGED finding_idx
           /\ UNCHANGED outcome
    /\ UNCHANGED <<guards, findings, audit_file, input>>
    /\ UNCHANGED <<policy_vars, isolated_vars, threaded_vars, singleton_vars>>

\* run_mask changed: what mask returns is dropped, every guard sees the
\* text the caller gave
run_mask_discard ==
    /\ pc = "mask"
    /\ LET r == GuardMask(guards[guard_idx], text)
       IN  /\ trace' = Append(trace, Event("mask", guard_idx, text, NoFinding, <<>>,
                                         IF r.raised THEN text ELSE r.value,
                                         r.raised))
           /\ IF r.raised
              THEN /\ Propagate(r.exc)
                   /\ UNCHANGED <<finding_idx, guard_idx>>
              ELSE /\ IF finding_idx < Len(findings)
                      THEN /\ finding_idx' = finding_idx + 1
                           /\ pc' = "audit"
                           /\ UNCHANGED guard_idx
                      ELSE /\ pc' = AfterGuard(guard_idx)
                           /\ guard_idx' = guard_idx + 1
                           /\ UNCHANGED finding_idx
                   /\ UNCHANGED outcome
    /\ UNCHANGED <<guards, text, findings, audit_file, input>>
    /\ UNCHANGED <<policy_vars, isolated_vars, threaded_vars, singleton_vars>>

\* text = guard.mask(text), inside `for finding in findings`, and the heads
\* of both loops
run_mask ==
    /\ pc = "mask"
    /\ LET r == GuardMask(guards[guard_idx], text)
       IN  /\ trace' = Append(trace, Event("mask", guard_idx, text, NoFinding, <<>>,
                                         IF r.raised THEN text ELSE r.value,
                                         r.raised))
           /\ IF r.raised
              THEN /\ Propagate(r.exc)
                   /\ UNCHANGED <<text, finding_idx, guard_idx>>
              ELSE /\ text' = r.value
                   /\ IF finding_idx < Len(findings)
                      THEN /\ finding_idx' = finding_idx + 1
                           /\ pc' = "audit"
                           /\ UNCHANGED guard_idx
                      ELSE /\ pc' = AfterGuard(guard_idx)
                           /\ guard_idx' = guard_idx + 1
                           /\ UNCHANGED finding_idx
                   /\ UNCHANGED outcome
    /\ UNCHANGED <<guards, findings, audit_file, input>>
    /\ UNCHANGED <<policy_vars, isolated_vars, threaded_vars, singleton_vars>>

\* return text
run_return ==
    /\ pc = "return"
    /\ outcome' = [kind |-> "return", value |-> text, exc |-> "none"]
    /\ pc' = "done"
    /\ UNCHANGED <<guards, text, guard_idx, findings, finding_idx, audit_file, trace, input>>
    /\ UNCHANGED <<policy_vars, isolated_vars, threaded_vars, singleton_vars>>

(***************************************************************************)
(* run as a function: the outcome and the audit entries (without the       *)
(* timestamp) of one run call that nothing else interleaves with           *)
(***************************************************************************)
RECURSIVE RunGuards(_, _, _, _), RunFindings(_, _, _, _, _, _)
\* `for guard in self.guards`, from guard number k on
RunGuards(gs, k, t, entries) ==
    IF k > Len(gs)
    THEN [outcome |-> [kind |-> "return", value |-> t, exc |-> "none"],
          entries |-> entries]
    ELSE LET r == GuardCheck(gs[k], t)
         IN  IF r.raised
             THEN [outcome |-> [kind |-> "exception", value |-> <<>>, exc |-> r.exc],
                   entries |-> entries]
             ELSE RunFindings(gs, k, r.value, 1, t, entries)

\* `for finding in findings`, from finding number j on
RunFindings(gs, k, fs, j, t, entries) ==
    IF j > Len(fs) THEN RunGuards(gs, k + 1, t, entries)
    ELSE LET written == Append(entries, AddField(fs[j], "guard", ClassName(gs[k])))
             m == GuardMask(gs[k], t)
         IN  IF m.raised
             THEN [outcome |-> [kind |-> "exception", value |-> <<>>, exc |-> m.exc],
                   entries |-> written]
             ELSE RunFindings(gs, k, fs, j + 1, m.value, written)

RunOf(gs, t) == RunGuards(gs, 1, t, <<>>)

(***************************************************************************)
(* Several threads call run on one GuardManager.  Each call has its own    *)
(* locals; the guards and audit.log are shared.  A step is one call run    *)
(* makes; audit_log's append of one line is one write to the file.         *)
(***************************************************************************)
Threads == 1..MaxThreads

\* the texts the threads hand to run
ThreadTexts ==
    { <<"<","s","c","r","i","p","t">> \o <<NonAsciiChar>>,
      SecretWord \o <<"<","s","c","r","i","p","t">>,
      <<"a","@","b",".","c">>,
      <<" ">> }

\* the locals of a run call that has not started
NoRun ==
    [pc |-> "idle", input |-> <<>>, text |-> <<>>, guard_idx |-> 0, findings |-> <<>>,
     finding_idx |-> 0, outcome |-> NoOutcome, lines |-> <<>>]

\* the clock of datetime.now(): one tick per line written to audit.log
ThreadNow == Len(audit_file)

\* where a thread's guard loop goes after guard k
ThreadAfterGuard(k) == IF k < Len(guards) THEN "check" ELSE "return"

\* what a run call in a thread leaves alone
ThreadFrame ==
    /\ UNCHANGED <<pc, text, guard_idx, findings, finding_idx, outcome, trace, input>>
    /\ UNCHANGED <<policy_vars, isolated_vars, singleton_vars>>

\* thread t enters run(text)
thread_call(t) ==
    /\ runs[t].pc = "idle"
    /\ \E txt \in ThreadTexts :
          runs' = [runs EXCEPT ![t] = [@ EXCEPT !.input = txt, !.text = txt,
                                                !.guard_idx = 1,
                                                !.pc = IF guards = <<>> THEN "return"
                                                       ELSE "check"]]
    /\ UNCHANGED <<guards, audit_file>>
    /\ ThreadFrame

\* findings = guard.check(text)
thread_check(t) ==
    /\ runs[t].pc = "check"
    /\ LET me == runs[t]
           r == GuardCheck(guards[me.guard_idx], me.text)
       IN  runs' = [runs EXCEPT ![t] =
                     IF r.raised
                     THEN [me EXCEPT !.pc = "raised",
                                     !.outcome = [kind |-> "exception", value |-> <<>>,
                                                  exc |-> r.exc]]
                     ELSE IF Len(r.value) = 0
                     THEN [me EXCEPT !.findings = r.value, !.finding_idx = 1,
                                     !.pc = ThreadAfterGuard(me.guard_idx),
                                     !.guard_idx = @ + 1]
                     ELSE [me EXCEPT !.findings = r.value, !.finding_idx = 1,
                                     !.pc = "audit"]]
    /\ UNCHANGED <<guards, audit_file>>
    /\ ThreadFrame

\* audit_log(guard=guard.__class__.__name__, **finding)
thread_audit(t) ==
    /\ runs[t].pc = "audit"
    /\ LET me == runs[t]
           entry == AddField(AddField(me.findings[me.finding_idx], "guard",
                                      ClassName(guards[me.guard_idx])),
                             "timestamp", ThreadNow)
       IN  /\ audit_file' = Append(audit_file, entry)
           /\ runs' = [runs EXCEPT ![t] =
                         [me EXCEPT !.pc = "explain",
                                    !.lines = Append(@, Len(audit_file) + 1)]]
    /\ UNCHANGED guards
    /\ ThreadFrame

\* guard.explain_action(finding)
thread_explain(t) ==
    /\ runs[t].pc = "explain"
    /\ runs' = [runs EXCEPT ![t] = [@ EXCEPT !.pc = "mask"]]
    /\ UNCHANGED <<guards, audit_file>>
    /\ ThreadFrame

\* the locals of a thread after its mask call returned masked
Masked(me, masked) ==
    IF me.finding_idx < Len(me.findings)
    THEN [me EXCEPT !.text = masked, !.finding_idx = @ + 1, !.pc = "audit"]
    ELSE [me EXCEPT !.text = masked, !.pc = ThreadAfterGuard(me.guard_idx),
                    !.guard_idx = @ + 1]

\* thread_mask changed: the masked text is kept on the shared GuardManager,
\* so every running call continues with it
thread_mask_shared(t) ==
    /\ runs[t].pc = "mask"
    /\ LET me == runs[t]
           r == GuardMask(guards[me.guard_idx], me.text)
       IN  runs' = [u \in Threads |->
                     IF u = t
                     THEN IF r.raised
                          THEN [me EXCEPT !.pc = "raised",
                                          !.outcome = [kind |-> "exception",
                                                       value |-> <<>>, exc |-> r.exc]]
                          ELSE Masked(me, r.value)
                     ELSE IF ~r.raised /\ runs[u].pc \notin {"idle", "done", "raised"}
                          THEN [runs[u] EXCEPT !.text = r.value]
                          ELSE runs[u]]
    /\ UNCHANGED <<guards, audit_file>>
    /\ ThreadFrame

\* text = guard.mask(text)
thread_mask(t) ==
    /\ runs[t].pc = "mask"
    /\ LET me == runs[t]
           r == GuardMask(guards[me.guard_idx], me.text)
       IN  runs' = [runs EXCEPT ![t] =
                     IF r.raised
                     THEN [me EXCEPT !.pc = "raised",
                                     !.outcome = [kind |-> "exception", value |-> <<>>,
                                                  exc |-> r.exc]]
                     ELSE Masked(me, r.value)]
    /\ UNCHANGED <<guards, audit_file>>
    /\ ThreadFrame

\* return text
thread_return(t) ==
    /\ runs[t].pc = "return"
    /\ runs' = [runs EXCEPT ![t] =
                  [@ EXCEPT !.pc = "done",
                            !.outcome = [kind |-> "return", value |-> runs[t].text,
                                         exc |-> "none"]]]
    /\ UNCHANGED <<guards, audit_file>>
    /\ ThreadFrame

\* a step of thread t
thread_step(t) ==
    \/ thread_call(t)
    \/ thread_check(t)
    \/ thread_audit(t)
    \/ thread_explain(t)
    \/ thread_mask(t)
    \/ thread_return(t)

(***************************************************************************)
(* get_policy_manager, called from several threads.  A PolicyManager       *)
(* object is its number in `stores`; 0 stands for None.  A thread may be   *)
(* switched out between any two statements of the function.                *)
(***************************************************************************)
NoManager == 0

\* the locals of a thread outside get_policy_manager: got is the history of
\* the handles its calls returned
NoCaller == [pc |-> "idle", got |-> <<>>]

\* the names a thread loads through its handle
HandleLoads == {"base", "child"}

\* what a thread in get_policy_manager or using a handle leaves alone
SingletonFrame == UNCHANGED <<pipeline_vars, policy_vars, isolated_vars, threaded_vars>>

\* `if _policy_manager is None:`
gpm_test(t) ==
    /\ callers[t].pc = "idle"
    /\ Len(callers[t].got) < MaxCalls
    /\ callers' = [callers EXCEPT ![t].pc = IF _policy_manager = NoManager
                                            THEN "create" ELSE "return"]
    /\ UNCHANGED <<_policy_manager, stores>>
    /\ SingletonFrame

\* `_policy_manager = PolicyManager(config_dir)`: a new store, which
\* __init__ fills with the default policy
gpm_create(t) ==
    /\ callers[t].pc = "create"
    /\ stores' = Append(stores, {"default"})
    /\ _policy_manager' = Len(stores) + 1
    /\ callers' = [callers EXCEPT ![t].pc = "return"]
    /\ SingletonFrame

\* `return _policy_manager`
gpm_return(t) ==
    /\ callers[t].pc = "return"
    /\ callers' = [callers EXCEPT ![t].pc = "idle",
                                  ![t].got = Append(@, _policy_manager)]
    /\ UNCHANGED <<_policy_manager, stores>>
    /\ SingletonFrame

\* the thread loads a policy through the handle its last call returned
handle_load(t) ==
    /\ callers[t].pc = "idle"
    /\ callers[t].got /= <<>>
    /\ \E name \in HandleLoads :
          LET h == callers[t].got[Len(callers[t].got)]
          IN  /\ name \notin stores[h]
              /\ stores' = [stores EXCEPT ![h] = @ \cup {name}]
    /\ UNCHANGED <<_policy_manager, callers>>
    /\ SingletonFrame

(***************************************************************************)
(* A guard used on its own: the caller builds one guard, takes a text, and *)
(* calls check and mask on it, keeping what mask returns.                  *)
(***************************************************************************)
NoGuard == "none"

\* the pieces of the caller's texts: a script tag in two parts, an upper
\* case one, a non-ASCII character, an email address, a phone number, the
\* secret keyword
Pieces ==
    { <<"<","s","c","r">>,
      <<"i","p","t">>,
      <<"<","S","C","R","I","P","T">>,
      <<NonAsciiChar>>,
      <<"a","@","b",".","c">>,
      <<"9","8","7","6","5","4","3","2","1","0">>,
      SecretWord }

RECURSIVE PieceTexts(_)
PieceTexts(n) ==
    IF n = 0 THEN {<<>>}
    ELSE LET S == PieceTexts(n - 1) IN S \cup {s \o f : s \in S, f \in Pieces}

\* one call on the guard: the text handed over, the findings check
\* returned, the text mask returned, whether the call raised
GuardCall(op, t, found, result, r) ==
    [op |-> op, text |-> t, found |-> found, result |-> result, raised |-> r]

\* g = SomeGuard(); text = ...
guard_new ==
    /\ guard = NoGuard
    /\ guard' \in GuardClasses
    /\ subject' \in PieceTexts(MaxFrags)
    /\ UNCHANGED calls
    /\ UNCHANGED <<pipeline_vars, policy_vars, threaded_vars, singleton_vars>>

\* g.check(text)
guard_check ==
    /\ guard /= NoGuard
    /\ Len(calls) < MaxCalls
    /\ LET r == GuardCheck(guard, subject)
       IN  calls' = Append(calls, GuardCall("check", subject,
                                            IF r.raised THEN <<>> ELSE r.value,
                                            subject, r.raised))
    /\ UNCHANGED <<guard, subject>>
    /\ UNCHANGED <<pipeline_vars, policy_vars, threaded_vars, singleton_vars>>

\* text = g.mask(text)
guard_mask ==
    /\ guard /= NoGuard
    /\ Len(calls) < MaxCalls
    /\ LET r == GuardMask(guard, subject)
       IN  /\ calls' = Append(calls, GuardCall("mask", subject, <<>>,
                                               IF r.raised THEN subject ELSE r.value,
                                               r.raised))
           /\ subject' = IF r.raised THEN subject ELSE r.value
    /\ UNCHANGED guard
    /\ UNCHANGED <<pipeline_vars, policy_vars, threaded_vars, singleton_vars>>

(***************************************************************************)
(* The policy model.  A PolicySet is a record; oid is the identity of the  *)
(* Python object (two PolicySets with equal fields are still two objects). *)
(***************************************************************************)
None == "None"
EmptyMap == [k \in {} |-> ""]
NonePolicy == [oid |-> -1]

PolicyActions == {"block", "warn", "mask", "log_only", "audit"}
PolicySeverities == {"low", "medium", "high", "critical"}
DefaultThreshold == 8
\* thresholds are counted in tenths: 1.0 is 10
One == 10
\* a threshold that is not a number: YAML `threshold: null` arrives as None
NoThreshold == -100

\* dict.get(k, dflt)
Get(d, k, dflt) == IF k \in DOMAIN d THEN d[k] ELSE dflt

GuardPolicy(guard_type, enabled, action, severity, threshold, custom_config) ==
    [guard_type |-> guard_type, enabled |-> enabled, action |-> action,
     severity |-> severity, threshold |-> threshold, custom_config |-> custom_config]

\* the identity of the GuardPolicy object built for a slot of PolicySet oid
GuardId(oid, slot) == [maker |-> oid, slot |-> slot]

\* guard_ids tells which GuardPolicy object each slot of the dict refers to:
\* a PolicySet built from fresh GuardPolicy objects refers to its own
PolicySet(oid, name, version, description, guard_map, metadata, parent_policy) ==
    [oid |-> oid, name |-> name, version |-> version, description |-> description,
     guards |-> guard_map, metadata |-> metadata, parent_policy |-> parent_policy,
     guard_ids |-> [slot \in DOMAIN guard_map |-> GuardId(oid, slot)]]

\* the PolicySet _create_default_policy builds
DefaultPolicy(oid) ==
    PolicySet(oid, "default", "1.0.0", "Default SafeLayer policy set",
              [pii |-> GuardPolicy("pii", TRUE, "mask", "high", 9, EmptyMap),
               tone |-> GuardPolicy("tone", TRUE, "warn", "medium", 7, EmptyMap),
               tts |-> GuardPolicy("tts", TRUE, "block", "critical", 8, EmptyMap)],
              [created_by |-> "SafeLayer", auto_generated |-> "True"],
              None)

(***************************************************************************)
(* The policy files on disk: path -> parsed document.  A path is its stem  *)
(* and suffix.  A key left out of a document is absent from the record.    *)
(***************************************************************************)
Path(stem, suffix) == [stem |-> stem, suffix |-> suffix]

BaseDoc ==
    [name |-> "base", version |-> "2.0.0", description |-> "base rules",
     metadata |-> [owner |-> "sec", region |-> "eu"],
     guards |-> [pii |-> [action |-> "mask", severity |-> "high", threshold |-> 9],
                 tone |-> [action |-> "warn", enabled |-> FALSE]]]

ChildDoc ==
    [name |-> "child", version |-> "0.1.0", description |-> "app rules",
     parent_policy |-> "base",
     metadata |-> [owner |-> "app", team |-> "x"],
     guards |-> [pii |-> [action |-> "block", threshold |-> 5],
                 tts |-> [guard_type |-> "speech", severity |-> "critical"]]]

\* a document that names itself "default"
DefaultDoc ==
    [name |-> "default", version |-> "9.9.9",
     guards |-> [pii |-> [enabled |-> FALSE, action |-> "log_only"]]]

\* no name, no guards, no metadata; inherits from "child"
LeafDoc == [parent_policy |-> "child"]

BadEnumDoc ==
    [name |-> "badenum", guards |-> [pii |-> [action |-> "redact"]]]

NotesDoc == [name |-> "notes"]

\* empty name and version, thresholds 1.5 and -0.1, an empty guard type
WideDoc ==
    [name |-> "", version |-> "",
     guards |-> [pii |-> [threshold |-> 15],
                 tone |-> [guard_type |-> "", threshold |-> -1]]]

\* `threshold: null`
NullDoc == [name |-> "null", guards |-> [pii |-> [threshold |-> NoThreshold]]]

Files ==
    [p \in {Path("base", ".yaml"), Path("child", ".yaml"), Path("default", ".json"),
            Path("leaf", ".YML"), Path("badenum", ".yaml"), Path("notes", ".txt"),
            Path("wide", ".yaml"), Path("null", ".yml")} |->
        CASE p.stem = "base" -> BaseDoc
          [] p.stem = "child" -> ChildDoc
          [] p.stem = "default" -> DefaultDoc
          [] p.stem = "leaf" -> LeafDoc
          [] p.stem = "badenum" -> BadEnumDoc
          [] p.stem = "notes" -> NotesDoc
          [] p.stem = "wide" -> WideDoc
          [] p.stem = "null" -> NullDoc]

\* config_dir before any save_policy call
NoFiles == [p \in {} |-> NotesDoc]

\* what open() finds: the files of the deployment and those save_policy wrote
Disk(saved) ==
    [p \in DOMAIN Files \cup DOMAIN saved |->
        IF p \in DOMAIN saved THEN saved[p] ELSE Files[p]]

\* the paths a caller hands to load_policy; missing.yaml is not on disk
Paths == DOMAIN Files \cup {Path("missing", ".yaml")}

\* the names a caller hands to set_active_policy
PolicyNames == {"default", "base", "child", "ghost"}

\* str.lower() of a path suffix
SuffixLower(sfx) ==
    CASE sfx = ".YML" -> ".yml"
      [] sfx = ".YAML" -> ".yaml"
      [] sfx = ".JSON" -> ".json"
      [] OTHER -> sfx

(***************************************************************************)
(* PolicyManager                                                           *)
(***************************************************************************)
\* one guard_config of the document turned into a GuardPolicy
ParseGuard(slot, cfg) ==
    GuardPolicy(Get(cfg, "guard_type", slot),
                Get(cfg, "enabled", TRUE),
                Get(cfg, "action", "block"),
                Get(cfg, "severity", "medium"),
                Get(cfg, "threshold", DefaultThreshold),
                Get(cfg, "custom_config", EmptyMap))

\* PolicyAction(...) and PolicySeverity(...) accept the value
EnumsValid(cfg) ==
    /\ Get(cfg, "action", "block") \in PolicyActions
    /\ Get(cfg, "severity", "medium") \in PolicySeverities

\* the PolicySet load_policy builds from a document, before inheritance
ParsePolicy(path, data, oid) ==
    LET gs == Get(data, "guards", EmptyMap)
    IN  PolicySet(oid,
                  Get(data, "name", path.stem),
                  Get(data, "version", "1.0.0"),
                  Get(data, "description", ""),
                  [slot \in DOMAIN gs |-> ParseGuard(slot, gs[slot])],
                  Get(data, "metadata", EmptyMap),
                  Get(data, "parent_policy", None))

\* dict(a) followed by .update(b)
Overlay(a, b) == [k \in DOMAIN a \cup DOMAIN b |-> IF k \in DOMAIN b THEN b[k] ELSE a[k]]

\* _merge_policies changed: the parent wins on a key collision
_merge_policies_parent_wins(parent, child, oid) ==
    PolicySet(oid, child.name, child.version, child.description,
              Overlay(child.guards, parent.guards),
              Overlay(Overlay(child.metadata, parent.metadata),
                      [inherited_from |-> parent.name]),
              child.parent_policy)

\* dict(parent.guards) and .update(child.guards) copy the references: the
\* merged dict holds the GuardPolicy objects of the parent and the child
_merge_policies(parent, child, oid) ==
    [PolicySet(oid, child.name, child.version, child.description,
               Overlay(parent.guards, child.guards),
               Overlay(Overlay(parent.metadata, child.metadata),
                       [inherited_from |-> parent.name]),
               child.parent_policy)
       EXCEPT !.guard_ids = Overlay(parent.guard_ids, child.guard_ids)]

\* `policy.parent_policy and policy.parent_policy in self.loaded_policies`
ResolvesParent(reg, policy) ==
    /\ policy.parent_policy /= None
    /\ policy.parent_policy /= ""
    /\ policy.parent_policy \in DOMAIN reg

\* dict item assignment
Store(reg, name, policy) ==
    [k \in DOMAIN reg \cup {name} |-> IF k = name THEN policy ELSE reg[k]]

\* load_policy on registry reg: what it raises or returns, the registry it
\* leaves, and the number of PolicySet objects it constructed
\* what load_policy logs, prints or warns: policy.py has no such call
NoSignals == <<>>

Loaded(reg, policy, made) ==
    [raised |-> FALSE, exc |-> "none", policy |-> policy,
     registry |-> Store(reg, policy.name, policy), made |-> made,
     signals |-> NoSignals]
LoadFailed(reg, e) ==
    [raised |-> TRUE, exc |-> e, policy |-> NonePolicy, registry |-> reg, made |-> 0,
     signals |-> NoSignals]

\* load_policy changed: a parent that is not loaded is an error
load_policy_strict(disk, reg, path, oid) ==
    IF path \notin DOMAIN disk THEN LoadFailed(reg, "FileNotFoundError")
    ELSE IF SuffixLower(path.suffix) \notin {".yaml", ".yml", ".json"}
    THEN LoadFailed(reg, "ValueError")
    ELSE LET data == disk[path]
             gs == Get(data, "guards", EmptyMap)
         IN  IF \E slot \in DOMAIN gs : ~EnumsValid(gs[slot])
             THEN LoadFailed(reg, "ValueError")
             ELSE LET policy == ParsePolicy(path, data, oid)
                  IN  IF ResolvesParent(reg, policy)
                      THEN Loaded(reg, _merge_policies(reg[policy.parent_policy],
                                                       policy, oid + 1), 2)
                      ELSE IF policy.parent_policy \notin {None, ""}
                      THEN LoadFailed(reg, "ValueError")
                      ELSE Loaded(reg, policy, 1)

\* load_policy changed: the PolicySet is registered before its guards are
\* converted, so an invalid enum value leaves an entry behind
load_policy_early_store(disk, reg, path, oid) ==
    IF path \notin DOMAIN disk THEN LoadFailed(reg, "FileNotFoundError")
    ELSE IF SuffixLower(path.suffix) \notin {".yaml", ".yml", ".json"}
    THEN LoadFailed(reg, "ValueError")
    ELSE LET data == disk[path]
             gs == Get(data, "guards", EmptyMap)
         IN  IF \E slot \in DOMAIN gs : ~EnumsValid(gs[slot])
             THEN [LoadFailed(reg, "ValueError") EXCEPT
                     !.registry = Store(reg, Get(data, "name", path.stem),
                                        PolicySet(oid, Get(data, "name", path.stem),
                                                  "1.0.0", "", EmptyMap, EmptyMap, None)),
                     !.made = 1]
             ELSE LET policy == ParsePolicy(path, data, oid)
                  IN  IF ResolvesParent(reg, policy)
                      THEN Loaded(reg, _merge_policies(reg[policy.parent_policy],
                                                       policy, oid + 1), 2)
                      ELSE Loaded(reg, policy, 1)

load_policy(disk, reg, path, oid) ==
    IF path \notin DOMAIN disk THEN LoadFailed(reg, "FileNotFoundError")
    ELSE IF SuffixLower(path.suffix) \notin {".yaml", ".yml", ".json"}
    THEN LoadFailed(reg, "ValueError")
    ELSE LET data == disk[path]
             gs == Get(data, "guards", EmptyMap)
         IN  IF \E slot \in DOMAIN gs : ~EnumsValid(gs[slot])
             THEN LoadFailed(reg, "ValueError")
             ELSE LET policy == ParsePolicy(path, data, oid)
                  IN  IF ResolvesParent(reg, policy)
                      THEN Loaded(reg, _merge_policies(reg[policy.parent_policy],
                                                       policy, oid + 1), 2)
                      ELSE Loaded(reg, policy, 1)

Call(op, path, name, raised, exc, result) ==
    [op |-> op, path |-> path, name |-> name, raised |-> raised, exc |-> exc,
     result |-> result]
NoPath == Path("", "")

\* manager.load_policy(path)
load ==
    /\ Len(history) < MaxCalls
    /\ \E path \in Paths \cup DOMAIN config_dir :
          LET r == load_policy(Disk(config_dir), loaded_policies, path, next_oid)
          IN  /\ loaded_policies' = r.registry
              /\ next_oid' = next_oid + r.made
              /\ history' = Append(history,
                                   AddField(Call("load", path, "", r.raised, r.exc,
                                                 r.policy),
                                            "signals", r.signals))
    /\ UNCHANGED <<active_policy, config_dir>>
    /\ UNCHANGED <<pipeline_vars, isolated_vars, threaded_vars, singleton_vars>>

\* set_active_policy changed: an unknown name selects the default policy
set_active_policy_fallback ==
    /\ Len(history) < MaxCalls
    /\ \E name \in PolicyNames :
          LET chosen == IF name \in DOMAIN loaded_policies
                        THEN loaded_policies[name]
                        ELSE loaded_policies["default"]
          IN  /\ active_policy' = chosen
              /\ history' = Append(history, Call("set_active", NoPath, name, FALSE,
                                                 "none", chosen))
    /\ UNCHANGED <<loaded_policies, next_oid, config_dir>>
    /\ UNCHANGED <<pipeline_vars, isolated_vars, threaded_vars, singleton_vars>>

\* manager.set_active_policy(policy_name)
set_active_policy ==
    /\ Len(history) < MaxCalls
    /\ \E name \in PolicyNames :
          IF name \notin DOMAIN loaded_policies
          THEN /\ history' = Append(history, Call("set_active", NoPath, name, TRUE,
                                                  "ValueError", NonePolicy))
               /\ UNCHANGED active_policy
          ELSE /\ active_policy' = loaded_policies[name]
               /\ history' = Append(history, Call("set_active", NoPath, name, FALSE,
                                                  "none", loaded_policies[name]))
    /\ UNCHANGED <<loaded_policies, next_oid, config_dir>>
    /\ UNCHANGED <<pipeline_vars, isolated_vars, threaded_vars, singleton_vars>>

\* get_active_policy changed: it looks the default up in the registry
get_active_policy_by_name ==
    /\ Len(history) < MaxCalls
    /\ history' = Append(history, Call("get_active", NoPath, "", FALSE, "none",
                                       loaded_policies[active_policy.name]))
    /\ UNCHANGED <<loaded_policies, active_policy, next_oid, config_dir>>
    /\ UNCHANGED <<pipeline_vars, isolated_vars, threaded_vars, singleton_vars>>

\* manager.get_active_policy()
get_active_policy ==
    /\ Len(history) < MaxCalls
    /\ IF active_policy = NonePolicy
       THEN \* return self._create_default_policy()
            /\ loaded_policies' = Store(loaded_policies, "default", DefaultPolicy(next_oid))
            /\ active_policy' = DefaultPolicy(next_oid)
            /\ next_oid' = next_oid + 1
            /\ history' = Append(history, Call("get_active", NoPath, "", FALSE, "none",
                                               DefaultPolicy(next_oid)))
            /\ UNCHANGED config_dir
       ELSE /\ history' = Append(history, Call("get_active", NoPath, "", FALSE, "none",
                                               active_policy))
            /\ UNCHANGED <<loaded_policies, active_policy, next_oid, config_dir>>
    /\ UNCHANGED <<pipeline_vars, isolated_vars, threaded_vars, singleton_vars>>

\* the PolicySet objects a caller holds: the active one, those of the
\* registry and those earlier calls returned
Held ==
    {active_policy} \cup {loaded_policies[n] : n \in DOMAIN loaded_policies}
       \cup {history[i].result : i \in 1..Len(history)}

\* config_dir / filename, as Path splits it into stem and suffix
SavedFile(stem, suffix) == [dir |-> "policies", stem |-> stem, suffix |-> suffix]

\* f"{policy.name}.yaml": Path(".yaml") has the stem ".yaml" and no suffix
DefaultFileName(name) ==
    IF name = "" THEN SavedFile(".yaml", "") ELSE SavedFile(name, ".yaml")

\* the filename argument of save_policy: None, or the caller's "copy.yml"
FileNames == {None, "copy.yml"}

\* policy_data, the document save_policy dumps
PolicyData(policy) ==
    [name |-> policy.name, version |-> policy.version,
     description |-> policy.description, parent_policy |-> policy.parent_policy,
     metadata |-> policy.metadata,
     guards |-> [slot \in DOMAIN policy.guards |->
                   [guard_type |-> policy.guards[slot].guard_type,
                    enabled |-> policy.guards[slot].enabled,
                    action |-> policy.guards[slot].action,
                    severity |-> policy.guards[slot].severity,
                    threshold |-> policy.guards[slot].threshold,
                    custom_config |-> policy.guards[slot].custom_config]]]

\* manager.save_policy(policy, filename)
save_policy ==
    /\ Len(history) < MaxCalls
    /\ \E policy \in Held \ {NonePolicy}, filename \in FileNames :
          LET filepath == IF filename = None THEN DefaultFileName(policy.name)
                          ELSE SavedFile("copy", ".yml")
          IN  /\ config_dir' = Store(config_dir, filepath, PolicyData(policy))
              /\ history' = Append(history,
                                   [op |-> "save", path |-> filepath, name |-> "",
                                    raised |-> FALSE, exc |-> "none",
                                    result |-> NonePolicy, policy |-> policy])
    /\ UNCHANGED <<loaded_policies, active_policy, next_oid>>
    /\ UNCHANGED <<pipeline_vars, isolated_vars, threaded_vars, singleton_vars>>

\* policy.guards.items(): the slots in the order of the dict
SlotOrder == <<"pii", "tone", "tts">>

\* the issues validate_policy appends for one guard slot; an issue is the
\* pieces of its f-string
GuardIssues(slot, guard_config) ==
    (IF guard_config.guard_type = ""
     THEN << <<"Guard '", slot, "' missing guard_type">> >> ELSE <<>>)
    \o (IF guard_config.threshold < 0 \/ guard_config.threshold > One
        THEN << <<"Guard '", slot, "' threshold must be between 0 and 1">> >>
        ELSE <<>>)

RECURSIVE AllGuardIssues(_, _)
AllGuardIssues(policy, slots) ==
    IF slots = <<>> THEN <<>>
    ELSE (IF Head(slots) \in DOMAIN policy.guards
          THEN GuardIssues(Head(slots), policy.guards[Head(slots)]) ELSE <<>>)
         \o AllGuardIssues(policy, Tail(slots))

\* validate_policy(policy): the list it returns, or the TypeError of
\* `guard_config.threshold < 0` on a threshold that is None
validate_policy(policy) ==
    IF \E slot \in DOMAIN policy.guards : policy.guards[slot].threshold = NoThreshold
    THEN [raised |-> TRUE, exc |-> "TypeError", issues |-> <<>>]
    ELSE [raised |-> FALSE, exc |-> "none",
          issues |-> (IF policy.name = "" THEN << <<"Policy name is required">> >>
                      ELSE <<>>)
                     \o (IF policy.version = ""
                         THEN << <<"Policy version is required">> >> ELSE <<>>)
                     \o AllGuardIssues(policy, SlotOrder)]

\* manager.validate_policy(policy)
validate ==
    /\ Len(history) < MaxCalls
    /\ \E policy \in Held \ {NonePolicy} :
          LET r == validate_policy(policy)
          IN  history' = Append(history,
                                [op |-> "validate", path |-> NoPath, name |-> "",
                                 raised |-> r.raised, exc |-> r.exc,
                                 result |-> NonePolicy, policy |-> policy,
                                 issues |-> r.issues])
    /\ UNCHANGED <<loaded_policies, active_policy, next_oid, config_dir>>
    /\ UNCHANGED <<pipeline_vars, isolated_vars, threaded_vars, singleton_vars>>

\* the arguments a caller hands to create_policy_template
TemplateNames == {"ghost", "default"}
TemplateGuards == {<<>>, <<"pii", "tone">>, <<"tts", "tts">>}

\* f"Template policy for {name}"
TemplateDescription(name) ==
    CASE name = "ghost" -> "Template policy for ghost"
      [] name = "default" -> "Template policy for default"

\* the PolicySet create_policy_template builds
create_policy_template(name, guard_names, oid) ==
    PolicySet(oid, name, "1.0.0", TemplateDescription(name),
              [guard_name \in {guard_names[i] : i \in 1..Len(guard_names)} |->
                  GuardPolicy(guard_name, TRUE, "block", "medium", DefaultThreshold,
                              EmptyMap)],
              [template |-> "True", created_by |-> "SafeLayer PolicyManager"],
              None)

TemplateCall(name, guard_names, policy) ==
    AddField(Call("template", NoPath, name, FALSE, "none", policy),
             "guard_names", guard_names)

\* create_policy_template changed: the template is put into the registry
template_stored ==
    /\ Len(history) < MaxCalls
    /\ \E name \in TemplateNames, guard_names \in TemplateGuards :
          LET policy == create_policy_template(name, guard_names, next_oid)
          IN  /\ history' = Append(history, TemplateCall(name, guard_names, policy))
              /\ loaded_policies' = Store(loaded_policies, name, policy)
    /\ next_oid' = next_oid + 1
    /\ UNCHANGED <<active_policy, config_dir>>
    /\ UNCHANGED <<pipeline_vars, isolated_vars, threaded_vars, singleton_vars>>

\* manager.create_policy_template(name, guards)
template ==
    /\ Len(history) < MaxCalls
    /\ \E name \in TemplateNames, guard_names \in TemplateGuards :
          history' = Append(history,
                            TemplateCall(name, guard_names,
                                         create_policy_template(name, guard_names,
                                                                next_oid)))
    /\ next_oid' = next_oid + 1
    /\ UNCHANGED <<loaded_policies, active_policy, config_dir>>
    /\ UNCHANGED <<pipeline_vars, isolated_vars, threaded_vars, singleton_vars>>

(***************************************************************************)
(* The specifications                                                      *)
(***************************************************************************)
\* PolicyManager.__init__: the default policy is registered and active
PolicyInit ==
    /\ loaded_policies = [n \in {"default"} |-> DefaultPolicy(0)]
    /\ active_policy = DefaultPolicy(0)
    /\ next_oid = 1
    /\ config_dir = NoFiles
    /\ history = <<>>

\* GuardManager.__init__: the guard list is the caller's; audit.log holds
\* a line of an earlier call
PipelineInit ==
    /\ guards \in GuardLists
    /\ pc = "idle"
    /\ text = <<>>
    /\ input = <<>>
    /\ guard_idx = 0
    /\ findings = <<>>
    /\ finding_idx = 0
    /\ audit_file = <<OldEntry>>
    /\ outcome = NoOutcome
    /\ trace = <<>>

\* no guard has been built yet
GuardInit ==
    /\ guard = NoGuard
    /\ subject = <<>>
    /\ calls = <<>>

\* no thread has called run yet
ThreadInit == runs = [t \in Threads |-> NoRun]

\* the module is imported: `_policy_manager = None`
SingletonInit ==
    /\ _policy_manager = NoManager
    /\ callers = [t \in Threads |-> NoCaller]
    /\ stores = <<>>

Init == PipelineInit /\ PolicyInit /\ GuardInit /\ ThreadInit /\ SingletonInit

PipelineNext ==
    \/ run_call
    \/ run_check
    \/ run_audit
    \/ run_explain
    \/ run_mask
    \/ run_return

PolicyNext ==
    \/ load
    \/ set_active_policy
    \/ get_active_policy
    \/ save_policy
    \/ validate
    \/ template

\* the guard pipeline: one GuardManager, one run call
PipelineSpec == Init /\ [][PipelineNext]_vars

\* a PolicyManager on its own: no guard pipeline is attached
PolicyManagerInit == Init /\ guards = <<>>

\* the policy store: one PolicyManager and the calls made on it
PolicySpec == PolicyManagerInit /\ [][PolicyNext]_vars

GuardNext ==
    \/ guard_new
    \/ guard_check
    \/ guard_mask

\* one guard on its own, outside any GuardManager
GuardSpec == PolicyManagerInit /\ [][GuardNext]_vars

ThreadNext == \E t \in Threads : thread_step(t)

\* MaxThreads threads, each making one run call on the same GuardManager
ThreadSpec == Init /\ [][ThreadNext]_vars

SingletonNext ==
    \E t \in Threads :
       \/ gpm_test(t)
       \/ gpm_create(t)
       \/ gpm_return(t)
       \/ handle_load(t)

\* MaxThreads threads that call get_policy_manager and use what it returns
SingletonSpec == PolicyManagerInit /\ [][SingletonNext]_vars

Next == PipelineNext \/ PolicyNext \/ GuardNext \/ ThreadNext \/ SingletonNext
Spec == Init /\ [][Next]_vars

(***************************************************************************)
(* Properties of the guard pipeline (PipelineSpec)                         *)
(***************************************************************************)
Finished == pc \in {"done", "raised"}

\* the positions of the trace that hold a call of kind op on guard number k
CallsOf(op, k) == {i \in 1..Len(trace) : trace[i].op = op /\ trace[i].guard = k}

\* the text the masking of the guards before guard number k has produced:
\* what the last mask call of an earlier guard returned, the input if none
RECURSIVE TextBefore(_, _)
TextBefore(k, i) ==
    IF i = 0 THEN input
    ELSE IF trace[i].op = "mask" /\ trace[i].guard < k /\ ~trace[i].raised
    THEN trace[i].result
    ELSE TextBefore(k, i - 1)

\* C1: run is a sequential fold in list order: every check and every mask of
\* guard k is handed the text produced by the masking of guards 1..k-1, and
\* run returns the text left after the last guard.
C1_SequentialFold ==
    /\ \A i \in 1..Len(trace) :
          trace[i].op \in {"check", "mask"}
             => trace[i].text = TextBefore(trace[i].guard, Len(trace))
    /\ \A i, j \in 1..Len(trace) : i < j => trace[i].guard <= trace[j].guard
    /\ pc = "done" => outcome.value = TextBefore(Len(guards) + 1, Len(trace))

\* C2: per guard: check once on the current text; then audit and explain for
\* each finding in the order returned; only after all findings are audited
\* mask, once per guard -- never between two findings, never once per finding.
C2_MaskOncePerGuardAfterFindings ==
    \A k \in 1..Len(guards) :
        /\ Cardinality(CallsOf("check", k)) <= 1
        /\ Cardinality(CallsOf("mask", k)) <= 1
        /\ \A m \in CallsOf("mask", k) :
              /\ \A i \in CallsOf("audit", k) \cup CallsOf("explain", k) : i < m
              /\ \A c \in CallsOf("check", k) :
                    /\ c < m
                    /\ Cardinality(CallsOf("audit", k)) = Len(trace[c].found)
                    /\ Cardinality(CallsOf("explain", k)) = Len(trace[c].found)
        /\ \A c \in CallsOf("check", k) :
              \A n \in 1..Cardinality(CallsOf("audit", k)) :
                 \E a \in CallsOf("audit", k) :
                    /\ trace[a].finding = trace[c].found[n]
                    /\ Cardinality({b \in CallsOf("audit", k) : b <= a}) = n
                    /\ a + 1 \in CallsOf("explain", k) => trace[a + 1].finding = trace[a].finding

\* no guard of the list finds anything in t
NoFindingsIn(t) ==
    \A k \in 1..Len(guards) :
        LET r == GuardCheck(guards[k], t) IN ~r.raised /\ r.value = <<>>

\* C3: on a text (the empty one included) in which no guard of the list (the
\* empty one included) finds anything, run returns the input unchanged and
\* appends nothing to the audit log.
C3_NoFindingsUnchanged ==
    (pc /= "idle" /\ IsStr(input) /\ NoFindingsIn(input))
       => /\ audit_file = <<OldEntry>>
          /\ pc /= "raised"
          /\ text = input
          /\ pc = "done" => outcome = [kind |-> "return", value |-> input, exc |-> "none"]

C3_Witness ==
    /\ pc = "done"
    /\ Len(guards) = Cardinality(GuardClasses)
    /\ input /= <<>>
    /\ NoFindingsIn(input)
    /\ Len(trace) = Len(guards)

\* a record without the field k
DropField(r, k) == [x \in DOMAIN r \ {k} |-> r[x]]

\* the findings the check calls up to position i of the trace returned, each
\* with the class name of its guard, in call order
RECURSIVE FoundUpTo(_)
FoundUpTo(i) ==
    IF i = 0 THEN <<>>
    ELSE FoundUpTo(i - 1)
         \o (IF trace[i].op = "check"
             THEN [n \in 1..Len(trace[i].found) |->
                      AddField(trace[i].found[n], "guard",
                               ClassName(guards[trace[i].guard]))]
             ELSE <<>>)

\* C4: a run call appends exactly one entry per finding its check calls
\* returned, in guard order and finding order, each with the guard's name
\* and the finding's fields as detected; older entries stay as they were.
C4_OneEntryPerFinding ==
    Finished =>
       /\ Len(audit_file) >= 1
       /\ audit_file[1] = OldEntry
       /\ [n \in 1..(Len(audit_file) - 1) |-> DropField(audit_file[n + 1], "timestamp")]
             = FoundUpTo(Len(trace))

\* C5: a guard that raises in check or mask aborts run there: the exception
\* reaches the caller, no text is returned, the guard is not skipped and no
\* later call is made.
C5_RaiseAborts ==
    /\ \A i \in 1..Len(trace) :
          trace[i].raised
             => /\ i = Len(trace)
                /\ pc = "raised"
                /\ outcome.kind = "exception"
                /\ outcome.value = <<>>
    /\ pc = "raised" => Len(trace) >= 1 /\ trace[Len(trace)].raised
    /\ pc = "done" => outcome.kind = "return"

C5_Witness ==
    /\ pc = "raised"
    /\ trace[Len(trace)].op = "mask"
    /\ trace[Len(trace)].guard < Len(guards)
    /\ text /= input

\* C6: on a text that holds an email address a pipeline with a default
\* PIIGuard returns normally, the address gone and "[EMAIL MASKED]" in its
\* place ("[PHONE MASKED]" for a 10-digit number), and mask called on a
\* PIIGuard instance gives the same replacement.
C6_EmailReplaced ==
    (Finished /\ IsStr(input) /\ guards /= <<>> /\ guards[1] = "PIIGuard"
       /\ FindIter("EMAIL_RE", input, 1) /= <<>>)
       => /\ pc = "done"
          /\ outcome.value = PIIGuard_mask_method(input).value
          /\ Contains(outcome.value, EmailMasked)
          /\ FindIter("EMAIL_RE", outcome.value, 1) = <<>>
          /\ ~PIIGuard_mask(input).raised
          /\ PIIGuard_mask(input).value = PIIGuard_mask_method(input).value

(***************************************************************************)
(* Properties of the policy store (PolicySpec)                             *)
(***************************************************************************)
\* a step of the store is one call: the call it appended to the history
IsCall(h, h2) == Len(h2) = Len(h) + 1
LastCall(h) == h[Len(h)]

\* C7: set_active(name) succeeds only when name is a key of the registry,
\* and then the active policy is the PolicySet stored under it; otherwise it
\* fails and leaves active policy and registry as they were.  A load never
\* changes the active policy.
C7_SetActiveOnlyLoaded ==
    [][IsCall(history, history') =>
          LET c == LastCall(history')
          IN  /\ c.op = "set_active" =>
                    /\ c.raised <=> c.name \notin DOMAIN loaded_policies
                    /\ ~c.raised => active_policy' = loaded_policies[c.name]
                    /\ c.raised => active_policy' = active_policy
                    /\ loaded_policies' = loaded_policies
              /\ c.op = "load" => active_policy' = active_policy]_vars

C7_Witness ==
    /\ \E i \in 1..Len(history) :
          /\ history[i].op = "set_active"
          /\ ~history[i].raised
          /\ history[i].name = "child"
    /\ \E i \in 1..Len(history) : history[i].op = "set_active" /\ history[i].raised
    /\ active_policy.name = "child"
    /\ active_policy = loaded_policies["child"]

\* C8: in every reachable state there is one active PolicySet and it is a
\* loaded one: the registry maps its name to that very PolicySet.
C8_ActiveIsLoaded ==
    /\ active_policy /= NonePolicy
    /\ active_policy.name \in DOMAIN loaded_policies
    /\ loaded_policies[active_policy.name] = active_policy

\* the document a load call read, as load_policy parses it
Parsed(path) == ParsePolicy(path, Files[path], 0)

\* a load call that got as far as building the PolicySet of its document
BuiltPolicy(c) ==
    /\ c.op = "load"
    /\ c.path \in DOMAIN Files
    /\ SuffixLower(c.path.suffix) \in {".yaml", ".yml", ".json"}
    /\ \A slot \in DOMAIN Get(Files[c.path], "guards", EmptyMap) :
          EnumsValid(Get(Files[c.path], "guards", EmptyMap)[slot])

NamesParent(policy) == policy.parent_policy \notin {None, ""}

\* C9: when load resolves inheritance, the stored PolicySet has the parent's
\* stored guard slots overlaid by the child's, the metadata merged the same
\* way with inherited_from = the parent's name, and name, version,
\* description and parent_policy of the child.
C9_MergeOnLoad ==
    [][(IsCall(history, history') /\ BuiltPolicy(LastCall(history'))
        /\ NamesParent(Parsed(LastCall(history').path))
        /\ Parsed(LastCall(history').path).parent_policy \in DOMAIN loaded_policies)
       => LET c == LastCall(history')
              child == Parsed(c.path)
              parent == loaded_policies[child.parent_policy]
              stored == loaded_policies'[child.name]
          IN  /\ ~c.raised
              /\ c.result = stored
              /\ DOMAIN stored.guards = DOMAIN parent.guards \cup DOMAIN child.guards
              /\ \A slot \in DOMAIN child.guards :
                    stored.guards[slot] = child.guards[slot]
              /\ \A slot \in DOMAIN parent.guards \ DOMAIN child.guards :
                    stored.guards[slot] = parent.guards[slot]
              /\ DOMAIN stored.metadata =
                    DOMAIN parent.metadata \cup DOMAIN child.metadata \cup {"inherited_from"}
              /\ stored.metadata["inherited_from"] = parent.name
              /\ \A k \in DOMAIN child.metadata \ {"inherited_from"} :
                    stored.metadata[k] = child.metadata[k]
              /\ \A k \in DOMAIN parent.metadata \ (DOMAIN child.metadata \cup {"inherited_from"}) :
                    stored.metadata[k] = parent.metadata[k]
              /\ stored.name = child.name
              /\ stored.version = child.version
              /\ stored.description = child.description
              /\ stored.parent_policy = child.parent_policy]_vars

\* "child" was merged onto "base": a slot of both, one of the parent only,
\* one of the child only, and a metadata key of each kind
C9_Witness ==
    /\ "child" \in DOMAIN loaded_policies
    /\ "base" \in DOMAIN loaded_policies
    /\ "inherited_from" \in DOMAIN loaded_policies["child"].metadata
    /\ loaded_policies["child"].metadata["inherited_from"] = "base"
    /\ DOMAIN loaded_policies["child"].guards = {"pii", "tone", "tts"}
    /\ loaded_policies["child"].guards["pii"].action = "block"
    /\ loaded_policies["child"].guards["tone"] = loaded_policies["base"].guards["tone"]
    /\ loaded_policies["child"].metadata["owner"] = "app"
    /\ loaded_policies["child"].metadata["region"] = "eu"

\* the registry after loading the paths in order, from registry reg
RECURSIVE LoadAll(_, _, _)
LoadAll(reg, paths, oid) ==
    IF paths = <<>> THEN reg
    ELSE LET r == load_policy(Files, reg, Head(paths), oid)
         IN  LoadAll(r.registry, Tail(paths), oid + r.made)

\* a PolicySet, and a registry, without the object identities
NoOid(policy) == DropField(DropField(policy, "oid"), "guard_ids")
ByValue(reg) == [n \in DOMAIN reg |-> NoOid(reg[n])]

InitialRegistry == [n \in {"default"} |-> DefaultPolicy(0)]

\* two loads were made, the first of a child whose parent the second one
\* brought
ChildBeforeParent ==
    /\ Len(history) = 2
    /\ \A i \in 1..2 : BuiltPolicy(history[i]) /\ ~history[i].raised
    /\ NamesParent(Parsed(history[1].path))
    /\ Parsed(history[1].path).parent_policy = Parsed(history[2].path).name
    /\ Parsed(history[1].path).name /= Parsed(history[2].path).name
    /\ Parsed(history[1].path).parent_policy \notin DOMAIN InitialRegistry

\* C10: a child loaded while its parent is not in the registry is stored as
\* it is, without failure and without inherited_from; a later load (of the
\* parent, too) leaves it unchanged, so the registry depends on the order
\* of the load calls.
C10_ParentMissingStoredAsIs ==
    /\ [][IsCall(history, history') =>
             LET c == LastCall(history')
             IN  /\ (BuiltPolicy(c) /\ NamesParent(Parsed(c.path))
                     /\ Parsed(c.path).parent_policy \notin DOMAIN loaded_policies)
                       => LET doc == Files[c.path]
                              stored == loaded_policies'[Parsed(c.path).name]
                          IN  /\ ~c.raised
                              /\ c.result = stored
                              /\ NoOid(stored) = NoOid(Parsed(c.path))
                              /\ DOMAIN stored.guards = DOMAIN Get(doc, "guards", EmptyMap)
                              /\ stored.metadata = Get(doc, "metadata", EmptyMap)
                              /\ "inherited_from" \notin DOMAIN stored.metadata
                 /\ \A n \in DOMAIN loaded_policies :
                       (c.raised \/ c.op /= "load" \/ n /= c.result.name)
                          => /\ n \in DOMAIN loaded_policies'
                             /\ loaded_policies'[n] = loaded_policies[n]]_vars
    /\ [](ChildBeforeParent =>
             ByValue(loaded_policies)
                /= ByValue(LoadAll(InitialRegistry,
                                   <<history[2].path, history[1].path>>, 1)))

C10_Witness ==
    /\ ChildBeforeParent
    /\ history[1].path = Path("child", ".yaml")
    /\ history[2].path = Path("base", ".yaml")
    /\ "inherited_from" \notin DOMAIN loaded_policies["child"].metadata
    /\ DOMAIN loaded_policies["child"].guards = {"pii", "tts"}
    /\ "base" \in DOMAIN loaded_policies

\* the PolicySet invariant of the data model
PolicySetInvariant(policy) ==
    /\ policy.name /= ""
    /\ policy.version /= ""
    /\ \A slot \in DOMAIN policy.guards :
          /\ policy.guards[slot].guard_type /= ""
          /\ policy.guards[slot].threshold >= 0
          /\ policy.guards[slot].threshold <= One

\* C11: every PolicySet of the registry has a non-empty name and version,
\* every guard threshold within [0,1] and every guard type non-empty; a
\* file with an out-of-range threshold is never registered.
C11_RegistryValid ==
    \A n \in DOMAIN loaded_policies : PolicySetInvariant(loaded_policies[n])

\* the last call is a load of the file the call before it saved
RoundTrip(h) ==
    /\ Len(h) >= 2
    /\ h[Len(h)].op = "load"
    /\ h[Len(h) - 1].op = "save"
    /\ h[Len(h)].path = h[Len(h) - 1].path

\* C12: saving a PolicySet and loading the saved file returns a PolicySet
\* equal to the saved one in every field (name, version, description,
\* parent_policy, metadata, and every guard slot with all its fields),
\* also when its parent_policy names a policy of the registry; no
\* inherited_from marker is added.
C12_RoundTrip ==
    \A n \in 2..Len(history) :
        RoundTrip(SubSeq(history, 1, n))
           => /\ ~history[n].raised
              /\ NoOid(history[n].result) = NoOid(history[n - 1].policy)

\* the rules of the PolicySet invariant that a policy violates: the name,
\* the version, and per guard slot the guard type and the threshold
ViolatedRules(policy) ==
    {<<rule, "">> : rule \in {r \in {"name", "version"} : policy[r] = ""}}
       \cup {<<"guard_type", slot>> :
                slot \in {sl \in DOMAIN policy.guards :
                             policy.guards[sl].guard_type = ""}}
       \cup {<<"threshold", slot>> :
                slot \in {sl \in DOMAIN policy.guards :
                             \/ policy.guards[sl].threshold < 0
                             \/ policy.guards[sl].threshold > One}}

\* C13: validate never raises and changes neither the policy, the registry
\* nor the active policy; it returns the empty list exactly when the
\* policy is compliant, and otherwise one issue per violated rule, each
\* guard-level issue naming its slot.
C13_ValidateTotal ==
    [][(IsCall(history, history') /\ LastCall(history').op = "validate")
       => LET c == LastCall(history')
          IN  /\ ~c.raised
              /\ loaded_policies' = loaded_policies
              /\ active_policy' = active_policy
              /\ c.policy \in Held
              /\ (c.issues = <<>>) <=> PolicySetInvariant(c.policy)
              /\ Len(c.issues) = Cardinality(ViolatedRules(c.policy))
              /\ \A v \in ViolatedRules(c.policy) :
                    v[2] /= "" => \E i \in 1..Len(c.issues) :
                                     /\ Len(c.issues[i]) = 3
                                     /\ c.issues[i][2] = v[2]]_vars

\* a set_active call of the history succeeded
EverSet(h) == \E i \in 1..Len(h) : h[i].op = "set_active" /\ ~h[i].raised

\* pii=mask/high/0.9, tone=warn/medium/0.7, tts=block/critical/0.8
IsBuiltInDefault(policy) ==
    /\ policy.name = "default"
    /\ DOMAIN policy.guards = {"pii", "tone", "tts"}
    /\ policy.guards["pii"].action = "mask"
    /\ policy.guards["pii"].severity = "high"
    /\ policy.guards["pii"].threshold = 9
    /\ policy.guards["tone"].action = "warn"
    /\ policy.guards["tone"].severity = "medium"
    /\ policy.guards["tone"].threshold = 7
    /\ policy.guards["tts"].action = "block"
    /\ policy.guards["tts"].severity = "critical"
    /\ policy.guards["tts"].threshold = 8
    /\ \A slot \in DOMAIN policy.guards :
          policy.guards[slot].guard_type = slot /\ policy.guards[slot].enabled

\* C15: while no set_active call has succeeded, get_active returns the
\* built-in default PolicySet, whatever has been loaded (a policy named
\* "default" included); get_active changes neither the registry nor the
\* active policy.
C15_GetActiveDefault ==
    [][(IsCall(history, history') /\ LastCall(history').op = "get_active")
       => LET c == LastCall(history')
          IN  /\ ~c.raised
              /\ loaded_policies' = loaded_policies
              /\ active_policy' = active_policy
              /\ ~EverSet(history) => /\ IsBuiltInDefault(c.result)
                                      /\ NoOid(c.result) = NoOid(DefaultPolicy(0))]_vars

\* default.json was loaded over the registry's "default", then get_active
\* was called, and no set_active succeeded
C15_Witness ==
    /\ ~EverSet(history)
    /\ \E i \in 1..Len(history) : \E j \in (i + 1)..Len(history) :
          /\ history[i].op = "load"
          /\ ~history[i].raised
          /\ history[i].result.name = "default"
          /\ history[j].op = "get_active"
          /\ IsBuiltInDefault(history[j].result)
    /\ ~IsBuiltInDefault(loaded_policies["default"])

\* C16: a load that skips inheritance because the named parent is not in
\* the registry is flagged: it puts out a warning or log record, or the
\* PolicySet it returns carries a marker a plain load does not produce.
C16_GapFlagged ==
    [][(IsCall(history, history') /\ BuiltPolicy(LastCall(history'))
        /\ NamesParent(Parsed(LastCall(history').path))
        /\ Parsed(LastCall(history').path).parent_policy \notin DOMAIN loaded_policies)
       => LET c == LastCall(history')
          IN  \/ c.raised
              \/ c.signals /= <<>>
              \/ DOMAIN c.result.metadata /= DOMAIN Parsed(c.path).metadata
              \/ DOMAIN c.result /= DOMAIN Parsed(c.path)]_vars

\* the three ways the file of a load call is unusable
NotFound(c, saved) == c.path \notin DOMAIN Disk(saved)
BadFormat(c, saved) ==
    /\ ~NotFound(c, saved)
    /\ SuffixLower(c.path.suffix) \notin {".yaml", ".yml", ".json"}
BadEnum(c, saved) ==
    /\ ~NotFound(c, saved)
    /\ ~BadFormat(c, saved)
    /\ \E slot \in DOMAIN Get(Disk(saved)[c.path], "guards", EmptyMap) :
          LET cfg == Get(Disk(saved)[c.path], "guards", EmptyMap)[slot]
          IN  \/ Get(cfg, "action", "block") \notin PolicyActions
              \/ Get(cfg, "severity", "medium") \notin PolicySeverities

\* C17: load fails with a not-found error for a path that does not exist,
\* with a format error for an extension that is not YAML or JSON, and
\* with an error for an action or severity outside the enums; a failed load
\* leaves the registry and the active policy exactly as they were.
C17_LoadFailures ==
    [][(IsCall(history, history') /\ LastCall(history').op = "load")
       => LET c == LastCall(history')
          IN  /\ NotFound(c, config_dir) => c.raised /\ c.exc = "FileNotFoundError"
              /\ BadFormat(c, config_dir) => c.raised /\ c.exc = "ValueError"
              /\ BadEnum(c, config_dir) => c.raised /\ c.exc = "ValueError"
              /\ c.raised => /\ loaded_policies' = loaded_policies
                             /\ active_policy' = active_policy]_vars

\* one failed load of each kind has been made, after which the registry
\* holds the default policy only
C17_Witness ==
    /\ \E i \in 1..Len(history) :
          history[i].op = "load" /\ history[i].exc = "FileNotFoundError"
    /\ \E i \in 1..Len(history) :
          /\ history[i].op = "load" /\ history[i].exc = "ValueError"
          /\ history[i].path = Path("notes", ".txt")
    /\ \E i \in 1..Len(history) :
          /\ history[i].op = "load" /\ history[i].exc = "ValueError"
          /\ history[i].path = Path("badenum", ".yaml")
    /\ DOMAIN loaded_policies = {"default"}
    /\ loaded_policies["default"] = active_policy

\* the PolicySet objects the manager holds
Registered == {loaded_policies[n] : n \in DOMAIN loaded_policies} \cup {active_policy}

\* C18: template(name, guard_names) returns a PolicySet named name with
\* exactly one entry per requested guard name, of that guard type, enabled,
\* block / medium / 0.8, and without parent; the call changes neither the
\* registry nor the active policy, the returned PolicySet is in neither, and
\* set_active(name) still fails unless the registry already had that name.
C18_TemplatePure ==
    /\ [][(IsCall(history, history') /\ LastCall(history').op = "template")
          => LET c == LastCall(history')
             IN  /\ ~c.raised
                 /\ c.result.name = c.name
                 /\ c.result.parent_policy = None
                 /\ DOMAIN c.result.guards
                       = {c.guard_names[i] : i \in 1..Len(c.guard_names)}
                 /\ \A g \in DOMAIN c.result.guards :
                       c.result.guards[g]
                          = GuardPolicy(g, TRUE, "block", "medium", 8, EmptyMap)
                 /\ loaded_policies' = loaded_policies
                 /\ active_policy' = active_policy]_vars
    /\ [](\A i \in 1..Len(history) :
             history[i].op = "template"
                => /\ history[i].result \notin Registered
                   /\ \A j \in (i + 1)..Len(history) :
                         (history[j].op = "set_active" /\ history[j].name = history[i].name
                          /\ ~history[j].raised)
                            => history[j].result /= history[i].result)
    /\ [][(IsCall(history, history') /\ LastCall(history').op = "set_active"
           /\ LastCall(history').name \notin DOMAIN loaded_policies)
          => LastCall(history').raised]_vars

\* a template named "ghost" with two guards was built, then
\* set_active("ghost") failed
C18_Witness ==
    \E i \in 1..Len(history) : \E j \in (i + 1)..Len(history) :
       /\ history[i].op = "template"
       /\ history[i].name = "ghost"
       /\ DOMAIN history[i].result.guards = {"pii", "tone"}
       /\ history[j].op = "set_active"
       /\ history[j].name = "ghost"
       /\ history[j].raised
       /\ "ghost" \notin DOMAIN loaded_policies

(***************************************************************************)
(* Properties of a guard on its own (GuardSpec)                            *)
(***************************************************************************)
\* C14: mask is idempotent for every guard: when mask is applied to the
\* text mask returned, it returns that text unchanged.
C14_MaskIdempotent ==
    \A i \in 1..(Len(calls) - 1) :
        (calls[i].op = "mask" /\ calls[i + 1].op = "mask"
         /\ ~calls[i].raised /\ ~calls[i + 1].raised)
           => calls[i + 1].result = calls[i].result

\* C19: a guard's mask neutralizes everything its check flags: check of
\* the text mask returned finds nothing (for TTSGuard: every script-like
\* tag, in any letter case, and every non-ASCII run).
C19_MaskNeutralizes ==
    \A i \in 1..(Len(calls) - 1) :
        (calls[i].op = "mask" /\ ~calls[i].raised /\ calls[i + 1].op = "check")
           => /\ ~calls[i + 1].raised
              /\ calls[i + 1].found = <<>>

(***************************************************************************)
(* Guard order (PipelineSpec)                                              *)
(***************************************************************************)
\* "<scriptsupersecret<script": the secret keyword inside the span of the
\* script pattern
OrderText == <<"<","s","c","r","i","p","t">> \o SecretWord \o <<"<","s","c","r","i","p","t">>

\* the guards whose findings the run has written to audit.log, in order
EntryGuards == [i \in 1..(Len(audit_file) - 1) |-> audit_file[i + 1].guard]

\* C20: guard order is significant: there are a text and two guards for
\* which the two orders write different audit entries, because the mask
\* of the earlier guard removes the span the later one would have flagged.
\* On OrderText, TTSGuard first strips the whole text and SecretGuard finds
\* nothing; SecretGuard first flags the keyword, and TTSGuard flags the tag
\* afterwards.
C20_OrderSignificant ==
    (pc = "done" /\ input = OrderText /\ Len(guards) = 2
     /\ {guards[1], guards[2]} = {"TTSGuard", "SecretGuard"})
       => /\ outcome.kind = "return"
          /\ guards[1] = "TTSGuard" => /\ EntryGuards = <<"TTSGuard">>
                                       /\ outcome.value = <<>>
          /\ guards[1] = "SecretGuard"
                => /\ EntryGuards = <<"SecretGuard", "TTSGuard">>
                   /\ outcome.value = <<>>
          /\ \E i \in 1..Len(trace) :
                /\ trace[i].op = "check"
                /\ guards[trace[i].guard] = "SecretGuard"
                /\ (trace[i].found = <<>>) <=> (guards[1] = "TTSGuard")

\* the run of [TTSGuard, SecretGuard] on OrderText is finished: one entry,
\* where the other order writes two
C20_Witness ==
    /\ pc = "done"
    /\ input = OrderText
    /\ guards = <<"TTSGuard", "SecretGuard">>
    /\ EntryGuards = <<"TTSGuard">>
    /\ \E i \in 1..Len(trace) :
          /\ trace[i].op = "check"
          /\ trace[i].guard = 2
          /\ trace[i].text = <<>>
          /\ trace[i].found = <<>>

(***************************************************************************)
(* Concurrent run calls (ThreadSpec)                                       *)
(***************************************************************************)
AllFinished == \A t \in Threads : runs[t].pc \in {"done", "raised"}

\* the entries thread t appended to audit.log, in the order of the file,
\* without their timestamps
WrittenBy(t) ==
    [i \in 1..Len(runs[t].lines) |-> DropField(audit_file[runs[t].lines[i]], "timestamp")]

\* C21: concurrent run calls are independent: under every interleaving of
\* run calls that share the guard instances, each call gives its caller
\* what it gives when executed alone, and audit.log ends up with exactly
\* the entries each call writes alone, each call's entries in its own order.
C21_RunsIndependent ==
    AllFinished
       => /\ \A t \in Threads :
                /\ runs[t].outcome = RunOf(guards, runs[t].input).outcome
                /\ WrittenBy(t) = RunOf(guards, runs[t].input).entries
                /\ \A i \in 1..(Len(runs[t].lines) - 1) :
                      runs[t].lines[i] < runs[t].lines[i + 1]
          /\ \A n \in 2..Len(audit_file) :
                \E t \in Threads : \E i \in 1..Len(runs[t].lines) : runs[t].lines[i] = n
          /\ \A t \in Threads : \A u \in Threads \ {t} :
                \A i \in 1..Len(runs[t].lines) : \A j \in 1..Len(runs[u].lines) :
                   runs[t].lines[i] /= runs[u].lines[j]
          /\ audit_file[1] = OldEntry

\* two calls on different texts are finished, the lines of one lying
\* between the lines of the other, and one of them had its text masked
C21_Witness ==
    /\ AllFinished
    /\ runs[1].input /= runs[2].input
    /\ Len(runs[1].lines) = 2
    /\ Len(runs[2].lines) >= 1
    /\ runs[1].lines[1] < runs[2].lines[1]
    /\ runs[2].lines[1] < runs[1].lines[2]
    /\ runs[1].outcome.kind = "return"
    /\ runs[1].outcome.value /= runs[1].input

(***************************************************************************)
(* Ownership of GuardPolicy objects (PolicySpec)                           *)
(***************************************************************************)
\* C22: no GuardPolicy object is shared between two PolicySets of the
\* registry: also after a load that resolved inheritance, every guard
\* entry of the stored child is an object of its own.
C22_NoSharedGuardPolicy ==
    \A n \in DOMAIN loaded_policies : \A m \in DOMAIN loaded_policies \ {n} :
       \A s \in DOMAIN loaded_policies[n].guard_ids :
          \A t \in DOMAIN loaded_policies[m].guard_ids :
             loaded_policies[n].guard_ids[s] /= loaded_policies[m].guard_ids[t]

(***************************************************************************)
(* The shape of findings (GuardSpec)                                       *)
(***************************************************************************)
\* C23: every finding a guard's check returns carries an entity kind and
\* start/end offsets with 0 <= start <= end <= len(text), text being the
\* text check was called on.
C23_FindingOffsets ==
    \A i \in 1..Len(calls) :
        (calls[i].op = "check" /\ ~calls[i].raised)
           => \A n \in 1..Len(calls[i].found) :
                 LET f == calls[i].found[n]
                 IN  /\ {"entity", "start", "end"} \subseteq DOMAIN f
                     /\ 0 <= f.start
                     /\ f.start <= f.end
                     /\ f.end <= Len(calls[i].text)

(***************************************************************************)
(* The process-wide policy store (SingletonSpec)                           *)
(***************************************************************************)
\* the handles get_policy_manager has returned to any thread
Handles == UNION {{callers[t].got[i] : i \in 1..Len(callers[t].got)} : t \in Threads}

\* C24: the process-wide store is created at most once: every call of
\* get_policy_manager, first calls made by several threads at the same time
\* included, returns the same store, so what is loaded through one handle
\* is visible through every other.
C24_OneStore ==
    /\ Len(stores) <= 1
    /\ \A h \in Handles : h /= NoManager
    /\ \A h1 \in Handles : \A h2 \in Handles :
          /\ h1 = h2
          /\ stores[h1] = stores[h2]

====
